---- MODULE Spec2Model ----
(***************************************************************************)
(* Building energy model and its calibration engine.                       *)
(*                                                                         *)
(* Numbers are fixed point integers:                                       *)
(*   U values, SHGC and COP in tenths, occupancy_rate in percent,          *)
(*   loads in W, energies in kWh, pressures in Pa, absolute humidity in    *)
(*   1e-5 kg/kg, enthalpy in J/kg.  Every division of the source is a      *)
(*   floor division at that resolution.                                    *)
(*                                                                         *)
(* Objects live on a heap: a reference names the object, so that two       *)
(* holders of the same reference see each other's writes.                  *)
(***************************************************************************)
EXTENDS Integers, Sequences, FiniteSets, TLC

----------------------------------------------------------------------------
(* Bounds of the model *)

\* the max_combinations argument of grid_search_calibration (1000 when the
\* route calls it), scaled down
MaxCombinations == 2
\* the objective calls for which differential_evolution picks its vector
\* freely
MaxTrials == 2
\* the number of calls of the objective in one run of the optimizer: more
\* than the length of the history tail that optimize_calibration returns
MaxEvaluations == 12
\* the longest sequences handed to calculate_metrics on its own
MaxPairs == 2

----------------------------------------------------------------------------
(* Generic helpers *)

Abs(x) == IF x < 0 THEN -x ELSE x

\* a term that is kept as computed
NoFloor(x) == x

\* max(0, x)
Max0(x) == IF x > 0 THEN x ELSE 0

\* the integer part of the square root, for n below 46340 squared
Isqrt(n) == CHOOSE r \in 0..46339 : r * r <= n /\ n < (r + 1) * (r + 1)

RECURSIVE SumSeq(_)
SumSeq(s) == IF s = <<>> THEN 0 ELSE Head(s) + SumSeq(Tail(s))

\* the one element of a one-element set; Only({ F(v) : v \in { e } }) is F(e)
\* with e evaluated once, the way a local variable is bound
Only(S) == CHOOSE x \in S : TRUE

SetAttr(obj, name, value) ==
    [f \in DOMAIN obj \cup {name} |-> IF f = name THEN value ELSE obj[f]]

----------------------------------------------------------------------------
(* PsychrometricCalculator *)

SaturationTable ==
    << 50, 55, 61, 67, 73, 80, 88, 96, 105, 114,
       125, 136, 148, 161, 175, 191, 207, 225, 244, 264,
       286, 309, 334, 361, 390, 421, 454, 490, 528, 568,
       611, 657, 706, 758, 814, 873, 935, 1002, 1073, 1148,
       1228, 1313, 1403, 1498, 1599, 1706, 1819, 1938, 2065, 2198,
       2339, 2488, 2645, 2810, 2985, 3169, 3363, 3567, 3781, 4007,
       4244, 4494, 4756, 5032, 5321, 5625, 5943, 6277, 6627, 6994,
       7378, 7780, 8202, 8642, 9103, 9586, 10090, 10616, 11166, 11741,
       12341 >>

\* 611 * exp(17.27 t / (t + 237.3)) in Pa, for whole degrees -30..50
saturation_pressure(temp) == SaturationTable[temp + 31]

\* 0.622 p_v / (101325 - p_v), in 1e-5 kg/kg
absolute_humidity(temp, rh) ==
    LET p_sat == saturation_pressure(temp)
        p_v == (p_sat * rh) \div 100
    IN  (62200 * p_v) \div (101325 - p_v)

\* 1.005 t + w (2501 + 1.846 t), in J/kg
enthalpy(temp, abs_humidity) ==
    1005 * temp + (abs_humidity * (25010 + 18 * temp)) \div 1000

----------------------------------------------------------------------------
(* HeatLoadCalculator *)

PERSON_SENSIBLE_HEAT == 60
PERSON_LATENT_HEAT == 40
OUTSIDE_AIR_RATE == 30
DEFAULT_SOLAR_RADIATION == 150

SOLAR_RADIATION_MAP ==
    << 120, 150, 180, 200, 220, 200, 220, 200, 180, 150, 120, 100 >>

SolarRadiation(month) ==
    IF month \in 1..12 THEN SOLAR_RADIATION_MAP[month]
    ELSE DEFAULT_SOLAR_RADIATION

\* a sensible load whose total leaves the occupants out
calculate_sensible_load_unoccupied(floor, condition, equipment) ==
    LET temp_diff == condition.outdoor_temp - condition.indoor_temp_setpoint
        wall_load == (floor.wall_u_value * floor.floor_area * 4 * temp_diff)
                        \div 100
        window_load == (floor.window_u_value * floor.window_area * temp_diff)
                        \div 10
        solar_load == (floor.window_area * floor.solar_heat_gain_coef
                        * SolarRadiation(condition.month)) \div 10
        lighting_load == (equipment.lighting_power_density * floor.floor_area
                        * condition.occupancy_rate) \div 100
        oa_load == (equipment.oa_equipment_power_density * floor.floor_area
                        * condition.occupancy_rate) \div 100
        person_load == PERSON_SENSIBLE_HEAT * condition.occupancy
    IN  [ wall |-> wall_load, window |-> window_load, solar |-> solar_load,
          lighting |-> lighting_load, oa_equipment |-> oa_load,
          person |-> person_load,
          total |-> wall_load + window_load + solar_load
                    + lighting_load + oa_load ]

\* floor is the FloorSpec the calculator holds, equipment the EquipmentSpec
\* passed in; loads in W
calculate_sensible_load(floor, condition, equipment) ==
    LET temp_diff == condition.outdoor_temp - condition.indoor_temp_setpoint
        wall_load == (floor.wall_u_value * floor.floor_area * 4 * temp_diff)
                        \div 100
        window_load == (floor.window_u_value * floor.window_area * temp_diff)
                        \div 10
        solar_load == (floor.window_area * floor.solar_heat_gain_coef
                        * SolarRadiation(condition.month)) \div 10
        lighting_load == (equipment.lighting_power_density * floor.floor_area
                        * condition.occupancy_rate) \div 100
        oa_load == (equipment.oa_equipment_power_density * floor.floor_area
                        * condition.occupancy_rate) \div 100
        person_load == PERSON_SENSIBLE_HEAT * condition.occupancy
    IN  [ wall |-> wall_load, window |-> window_load, solar |-> solar_load,
          lighting |-> lighting_load, oa_equipment |-> oa_load,
          person |-> person_load,
          total |-> wall_load + window_load + solar_load
                    + lighting_load + oa_load + person_load ]

calculate_latent_load(condition) ==
    LET person_latent == PERSON_LATENT_HEAT * condition.occupancy
        outdoor_abs_hum == absolute_humidity(condition.outdoor_temp,
                                             condition.outdoor_humidity)
        indoor_abs_hum == absolute_humidity(condition.indoor_temp_setpoint,
                                            condition.indoor_humidity_setpoint)
        air_volume == OUTSIDE_AIR_RATE * condition.occupancy
        moisture_diff == outdoor_abs_hum - indoor_abs_hum
        \* air_volume * 1.2 * moisture_diff * 2501 / 3600 kW
        outdoor_latent == (((air_volume * 12 * moisture_diff) \div 1000)
                            * 2501) \div 3600
    IN  [ person |-> person_latent,
          outdoor_air |-> Max0(outdoor_latent),
          total |-> person_latent + Max0(outdoor_latent) ]

----------------------------------------------------------------------------
(* HVACSystemModel; equipment is the EquipmentSpec the model holds *)

\* load in W times hours over a COP in tenths, in kWh
ThermalEnergy(load, hours, cop) == (load * hours) \div (cop * 100)

\* a chiller energy that keeps the sign of the load
calculate_central_system_energy_signed(equipment, sensible_load, latent_load, condition) ==
    LET total_load == sensible_load + latent_load
        ahu_fan_energy == equipment.central_ahu_fan_power
                            * condition.operation_hours
        chiller_energy ==
            IF total_load > 0
            THEN ThermalEnergy(total_load, condition.operation_hours,
                               equipment.central_chiller_cop)
            ELSE -ThermalEnergy(Abs(total_load), condition.operation_hours,
                                equipment.central_chiller_cop)
    IN  [ ahu_fan |-> ahu_fan_energy, chiller |-> chiller_energy,
          total |-> ahu_fan_energy + chiller_energy ]

calculate_central_system_energy(equipment, sensible_load, latent_load, condition) ==
    LET total_load == sensible_load + latent_load
        ahu_fan_energy == equipment.central_ahu_fan_power
                            * condition.operation_hours
        chiller_energy ==
            IF total_load > 0
            THEN ThermalEnergy(total_load, condition.operation_hours,
                               equipment.central_chiller_cop)
            ELSE ThermalEnergy(Abs(total_load), condition.operation_hours,
                               equipment.central_chiller_cop)
    IN  [ ahu_fan |-> ahu_fan_energy, chiller |-> chiller_energy,
          total |-> ahu_fan_energy + chiller_energy ]

\* a compressor that runs for cooling loads only
calculate_local_system_energy_cooling(equipment, sensible_load, latent_load, condition) ==
    LET total_load == sensible_load + latent_load
        fan_energy == equipment.local_ac_fan_power * condition.operation_hours
        compressor_energy ==
            IF total_load > 0
            THEN ThermalEnergy(total_load, condition.operation_hours,
                               equipment.local_ac_cop)
            ELSE 0
    IN  [ fan |-> fan_energy, compressor |-> compressor_energy,
          total |-> fan_energy + compressor_energy ]

calculate_local_system_energy(equipment, sensible_load, latent_load, condition) ==
    LET total_load == sensible_load + latent_load
        fan_energy == equipment.local_ac_fan_power * condition.operation_hours
        compressor_energy ==
            IF total_load > 0
            THEN ThermalEnergy(total_load, condition.operation_hours,
                               equipment.local_ac_cop)
            ELSE ThermalEnergy(Abs(total_load), condition.operation_hours,
                               equipment.local_ac_cop)
    IN  [ fan |-> fan_energy, compressor |-> compressor_energy,
          total |-> fan_energy + compressor_energy ]

----------------------------------------------------------------------------
(* Objects and references *)

FloorRefs == {"caller", "trial"}

\* BuildingEnergyModel.__init__: the model and its two calculators keep the
\* references they are given
BuildingEnergyModel(floor_spec, equipment_spec, monthly_conditions) ==
    [ floor_spec |-> floor_spec,
      equipment_spec |-> equipment_spec,
      monthly_conditions |-> monthly_conditions,
      heat_calc_floor_spec |-> floor_spec,
      hvac_model_equipment_spec |-> equipment_spec ]

\* a fraction that counts a zero load as all sensible
sensible_heat_fraction_unity(sensible_total, total_load) ==
    IF total_load /= 0 THEN (sensible_total * 1000) \div total_load ELSE 1000

\* shf = sensible['total'] / total_load if total_load != 0 else 0, in
\* thousandths
sensible_heat_fraction(sensible_total, total_load) ==
    IF total_load /= 0 THEN (sensible_total * 1000) \div total_load ELSE 0

\* one row of simulate_year
SimulateMonth(floor, calc_floor, equipment, hvac_equipment, condition) ==
    LET sensible == calculate_sensible_load(calc_floor, condition, equipment)
        latent == calculate_latent_load(condition)
        central_energy == calculate_central_system_energy(
                            hvac_equipment, sensible.total, latent.total,
                            condition)
        local_energy == calculate_local_system_energy(
                            hvac_equipment, sensible.total, latent.total,
                            condition)
        lighting_energy == (equipment.lighting_power_density * floor.floor_area
                            * condition.occupancy_rate
                            * condition.operation_hours) \div 100000
        oa_equipment_energy == (equipment.oa_equipment_power_density
                            * floor.floor_area * condition.occupancy_rate
                            * condition.operation_hours) \div 100000
        outdoor_enthalpy == enthalpy(condition.outdoor_temp,
                                absolute_humidity(condition.outdoor_temp,
                                                  condition.outdoor_humidity))
        indoor_enthalpy == enthalpy(condition.indoor_temp_setpoint,
                                absolute_humidity(
                                    condition.indoor_temp_setpoint,
                                    condition.indoor_humidity_setpoint))
        total_load == sensible.total + latent.total
        shf == sensible_heat_fraction(sensible.total, total_load)
    IN  [ month |-> condition.month,
          outdoor_temp |-> condition.outdoor_temp,
          indoor_temp |-> condition.indoor_temp_setpoint,
          occupancy |-> condition.occupancy,
          occupancy_rate |-> condition.occupancy_rate,
          load_wall_kW |-> sensible.wall,
          load_window_kW |-> sensible.window,
          load_solar_kW |-> sensible.solar,
          load_lighting_kW |-> sensible.lighting,
          load_oa_equipment_kW |-> sensible.oa_equipment,
          load_person_sensible_kW |-> sensible.person,
          load_person_latent_kW |-> latent.person,
          load_outdoor_air_latent_kW |-> latent.outdoor_air,
          sensible_load_kW |-> sensible.total,
          latent_load_kW |-> latent.total,
          total_load_kW |-> total_load,
          shf |-> shf,
          central_ahu_fan_kWh |-> central_energy.ahu_fan,
          central_chiller_kWh |-> central_energy.chiller,
          central_total_kWh |-> central_energy.total,
          local_fan_kWh |-> local_energy.fan,
          local_compressor_kWh |-> local_energy.compressor,
          local_total_kWh |-> local_energy.total,
          lighting_kWh |-> lighting_energy,
          oa_equipment_kWh |-> oa_equipment_energy,
          outdoor_enthalpy |-> outdoor_enthalpy,
          indoor_enthalpy |-> indoor_enthalpy ]

\* a loop that walks the conditions from the last to the first
simulate_year_reversed(m, h) ==
    LET conds == h.conds[m.monthly_conditions]
        n == Len(conds)
    IN  [ rows |-> [ i \in 1..n |->
                       SimulateMonth(h.floor[m.floor_spec],
                                     h.floor[m.heat_calc_floor_spec],
                                     h.equip[m.equipment_spec],
                                     h.equip[m.hvac_model_equipment_spec],
                                     conds[n + 1 - i]) ],
          heap |-> h ]

\* a loop that consumes the condition list it walks
simulate_year_consuming(m, h) ==
    LET conds == h.conds[m.monthly_conditions]
    IN  [ rows |-> [ i \in 1..Len(conds) |->
                       SimulateMonth(h.floor[m.floor_spec],
                                     h.floor[m.heat_calc_floor_spec],
                                     h.equip[m.equipment_spec],
                                     h.equip[m.hvac_model_equipment_spec],
                                     conds[i]) ],
          heap |-> [h EXCEPT !.conds[m.monthly_conditions] = << >>] ]

\* simulate_year of model object m on heap h: the rows it returns and the
\* heap it leaves
simulate_year(m, h) ==
    LET conds == h.conds[m.monthly_conditions]
    IN  [ rows |-> [ i \in 1..Len(conds) |->
                       SimulateMonth(h.floor[m.floor_spec],
                                     h.floor[m.heat_calc_floor_spec],
                                     h.equip[m.equipment_spec],
                                     h.equip[m.hvac_model_equipment_spec],
                                     conds[i]) ],
          heap |-> h ]

----------------------------------------------------------------------------
(* Comparison metrics *)

RECURSIVE ArgMaxFrom(_, _, _)
\* np.argmax: the first position of the largest value
ArgMaxFrom(s, i, best) ==
    IF i > Len(s) THEN best
    ELSE ArgMaxFrom(s, i + 1, IF s[i] > s[best] THEN i ELSE best)

\* the float nan, a value no energy takes
NaN == -1000000

isnan(v) == v = NaN

\* the positions of the pairs that np.isnan leaves in the arrays
Mask(simulated, actual) ==
    LET Valid(i) == ~(isnan(simulated[i]) \/ isnan(actual[i]))
    IN  SelectSeq([ i \in 1..Len(simulated) |-> i ], Valid)

\* the share of the variance left unexplained, without the "1 -"
r_squared_residual(ss_res, n, n_ss_tot) ==
    IF n_ss_tot /= 0 THEN (ss_res * n * 100) \div n_ss_tot ELSE 0

\* a constant actual series counted as a perfect fit
r_squared_constant_fits(ss_res, n, n_ss_tot) ==
    IF n_ss_tot /= 0 THEN 100 - (ss_res * n * 100) \div n_ss_tot ELSE 100

\* 1 - ss_res / ss_tot if ss_tot != 0 else 0, in hundredths; n_ss_tot is
\* n times ss_tot
r_squared(ss_res, n, n_ss_tot) ==
    IF n_ss_tot /= 0 THEN 100 - (ss_res * n * 100) \div n_ss_tot ELSE 0

\* the metrics of the valid pairs; n is their number, not 0
Metrics(sim_array, act_array, n) ==
    LET errors == [ i \in 1..n |-> sim_array[i] - act_array[i] ]
        abs_errors == [ i \in 1..n |-> Abs(errors[i]) ]
        sq_errors == [ i \in 1..n |-> errors[i] * errors[i] ]
        nonzero == { i \in 1..n : act_array[i] /= 0 }
        pct == [ i \in 1..n |-> IF act_array[i] /= 0
                                THEN (abs_errors[i] * 100) \div Abs(act_array[i])
                                ELSE 0 ]
        ss_res == SumSeq(sq_errors)
        \* n * sum((a - mean(a))^2) = n * sum(a^2) - sum(a)^2
        n_ss_tot == n * SumSeq([ i \in 1..n |-> act_array[i] * act_array[i] ])
                        - SumSeq(act_array) * SumSeq(act_array)
        max_error_idx == ArgMaxFrom(abs_errors, 1, 1)
    IN  [ rmse |-> Isqrt(ss_res \div n),
          mae |-> SumSeq(abs_errors) \div n,
          mape |-> IF nonzero /= {}
                   THEN SumSeq(pct) \div Cardinality(nonzero) ELSE 0,
          r_squared |-> r_squared(ss_res, n, n_ss_tot),
          max_error |-> abs_errors[max_error_idx],
          max_error_month |-> max_error_idx ]

\* a calculate_metrics that answers zero metrics when no pair is left
calculate_metrics_zero(simulated, actual) ==
    LET mask == Mask(simulated, actual)
        n == Len(mask)
    IN  IF n = 0
        THEN [ exc |-> "",
               metrics |-> << [ rmse |-> 0, mae |-> 0, mape |-> 0,
                                r_squared |-> 0, max_error |-> 0,
                                max_error_month |-> 0 ] >> ]
        ELSE [ exc |-> "",
               metrics |-> << Metrics([ k \in 1..n |-> simulated[mask[k]] ],
                                      [ k \in 1..n |-> actual[mask[k]] ], n) >> ]

\* rmse, mae, max_error in kWh; mape in percent; r_squared in hundredths
calculate_metrics(simulated, actual) ==
    LET mask == Mask(simulated, actual)
        n == Len(mask)
    IN  IF n = 0
        THEN [ exc |-> "ValueError", metrics |-> << >> ]
        ELSE [ exc |-> "",
               metrics |-> << Metrics([ k \in 1..n |-> simulated[mask[k]] ],
                                      [ k \in 1..n |-> actual[mask[k]] ], n) >> ]

----------------------------------------------------------------------------
(* Calibration: one trial *)

\* an Optional value is << >> (None) or << v >>

\* DataFrame.iloc[idx], idx counted from 0, negative idx from the end
IlocInRange(rows, idx) == idx < Len(rows) /\ idx >= -Len(rows)

Iloc(rows, idx) == IF idx >= 0 THEN rows[idx + 1] ELSE rows[Len(rows) + idx + 1]

SimValue(row, comparison_target) ==
    IF comparison_target = "total_kWh"
    THEN row.central_total_kWh + row.local_total_kWh
    ELSE row[comparison_target]

RECURSIVE ExtractFrom(_, _, _, _, _, _)
ExtractFrom(rows, actual_data, comparison_target, i, simulated, actual) ==
    IF i > Len(actual_data)
    THEN [ exc |-> "", simulated |-> simulated, actual |-> actual ]
    ELSE LET data == actual_data[i]
             month_idx == data.month - 1
             actual_value == data[comparison_target]
         IN  IF actual_value = << >>
             THEN ExtractFrom(rows, actual_data, comparison_target, i + 1,
                              simulated, actual)
             ELSE IF ~IlocInRange(rows, month_idx)
             THEN [ exc |-> "IndexError", simulated |-> << >>,
                    actual |-> << >> ]
             ELSE ExtractFrom(rows, actual_data, comparison_target, i + 1,
                    Append(simulated,
                           SimValue(Iloc(rows, month_idx), comparison_target)),
                    Append(actual, actual_value[1]))

extract_comparison_values(rows, actual_data, comparison_target) ==
    ExtractFrom(rows, actual_data, comparison_target, 1, << >>, << >>)

\* deepcopy writes over the object the caller was given
deepcopy_alias(src) == src

\* deepcopy: the reference of the new object that receives the copy
deepcopy(src) == "trial"

RECURSIVE ApplyParameters(_, _, _, _, _)
\* the setattr loop of run_simulation_with_params; a parameter is
\* [name |-> the parts of the dotted name, value |-> v]
ApplyParameters(h, floor, equipment, parameters, i) ==
    IF i > Len(parameters) THEN [ exc |-> "", heap |-> h ]
    ELSE LET parts == parameters[i].name
             value == parameters[i].value
         IN  IF parts[1] = "floor_spec"
             THEN IF Len(parts) < 2 THEN [ exc |-> "IndexError", heap |-> h ]
                  ELSE ApplyParameters(
                        [h EXCEPT !.floor[floor] = SetAttr(@, parts[2], value)],
                        floor, equipment, parameters, i + 1)
             ELSE IF parts[1] = "equipment_spec"
             THEN IF Len(parts) < 2 THEN [ exc |-> "IndexError", heap |-> h ]
                  ELSE ApplyParameters(
                        [h EXCEPT !.equip[equipment] =
                                        SetAttr(@, parts[2], value)],
                        floor, equipment, parameters, i + 1)
             ELSE ApplyParameters(h, floor, equipment, parameters, i + 1)

\* the end of run_simulation_with_params, once the overrides are applied
RunModel(applied, floor, equipment, monthly_conditions) ==
    IF applied.exc /= ""
    THEN [ exc |-> applied.exc, rows |-> << >>, heap |-> applied.heap,
           calls |-> 0 ]
    ELSE Only({ [ exc |-> "", rows |-> sim.rows, heap |-> sim.heap,
                  calls |-> 1 ] :
                sim \in { simulate_year(
                            BuildingEnergyModel(floor, equipment,
                                                monthly_conditions),
                            applied.heap) } })

\* exc is the exception that leaves the call ("" when it returns), calls
\* the number of simulate_year calls made
run_simulation_with_params(h, floor_spec, equipment_spec, monthly_conditions, parameters) ==
    LET floor == deepcopy(floor_spec)
        equipment == deepcopy(equipment_spec)
        copied == [h EXCEPT !.floor[floor] = h.floor[floor_spec],
                            !.equip[equipment] = h.equip[equipment_spec]]
    IN  Only({ RunModel(applied, floor, equipment, monthly_conditions) :
               applied \in { ApplyParameters(copied, floor, equipment,
                                             parameters, 1) } })

Failed(exc, run) ==
    [ exc |-> exc, rows |-> << >>, metrics |-> << >>, heap |-> run.heap,
      calls |-> run.calls ]

\* calculate_metrics on the extracted values
Measure(run, ext) ==
    IF ext.exc /= "" THEN Failed(ext.exc, run)
    ELSE Only({ IF met.exc /= "" THEN Failed(met.exc, run)
                ELSE [ exc |-> "", rows |-> run.rows,
                       metrics |-> met.metrics, heap |-> run.heap,
                       calls |-> run.calls ] :
                met \in { calculate_metrics(ext.simulated, ext.actual) } })

\* extract_comparison_values on the rows of the run, then the metrics
Compare(run, actual_data, comparison_target) ==
    IF run.exc /= "" THEN Failed(run.exc, run)
    ELSE Only({ Measure(run, ext) :
                ext \in { extract_comparison_values(run.rows, actual_data,
                                                    comparison_target) } })

\* simulation, extraction and metrics of one parameter assignment on the
\* caller's objects, as the searches chain them; exc is the first exception
\* raised, metrics << >> or << the ComparisonMetrics >>
EvaluateTrial(h, parameters, actual_data, comparison_target) ==
    Only({ Compare(run, actual_data, comparison_target) :
           run \in { run_simulation_with_params(h, "caller", "caller",
                                                "caller", parameters) } })

----------------------------------------------------------------------------
(* Grid search: the parameter grids and their combinations *)

\* a linspace that leaves the end point out
linspace_open(start, stop, num) ==
    [ i \in 1..(num - 1) |-> start + ((i - 1) * (stop - start)) \div num ]

\* np.linspace(start, stop, num)
linspace(start, stop, num) ==
    IF num = 1 THEN << start >>
    ELSE [ i \in 1..num |-> start + ((i - 1) * (stop - start)) \div (num - 1) ]

CeilDiv(a, b) == -((-a) \div b)

\* np.arange(min_value, max_value + step / 2, step) for a step > 0
arange_half(min_value, max_value, step) ==
    LET count == CeilDiv(2 * (max_value - min_value) + step, 2 * step)
    IN  [ i \in 1..Max0(count) |-> min_value + (i - 1) * step ]

GridValues(param_range) ==
    IF param_range.step /= << >>
    THEN arange_half(param_range.min_value, param_range.max_value,
                     param_range.step[1])
    ELSE linspace(param_range.min_value, param_range.max_value,
                  param_range.num_steps)

\* a dict is a sequence of [name, value] entries with distinct names, in
\* insertion order
DictHas(d, name) == \E i \in 1..Len(d) : d[i].name = name

DictSet(d, name, value) ==
    IF DictHas(d, name)
    THEN [ i \in 1..Len(d) |-> IF d[i].name = name
                                THEN [ name |-> name, value |-> value ]
                                ELSE d[i] ]
    ELSE Append(d, [ name |-> name, value |-> value ])

RECURSIVE DictFrom(_, _)
\* dict(zip(names, values)) appended to d
DictFrom(d, pairs) ==
    IF pairs = << >> THEN d
    ELSE DictFrom(DictSet(d, Head(pairs).name, Head(pairs).value), Tail(pairs))

Zip(names, values) ==
    [ i \in 1..(IF Len(names) < Len(values) THEN Len(names) ELSE Len(values))
        |-> [ name |-> names[i], value |-> values[i] ] ]

\* param_grids after the loop over parameter_ranges
ParamGrids(parameter_ranges) ==
    DictFrom(<< >>, [ i \in 1..Len(parameter_ranges) |->
                        [ name |-> parameter_ranges[i].parameter_name,
                          value |-> GridValues(parameter_ranges[i]) ] ])

RECURSIVE product(_)
\* itertools.product(*param_values): the last grid varies fastest
product(param_values) ==
    IF param_values = << >> THEN << << >> >>
    ELSE LET rest == product(Tail(param_values))
             first == Head(param_values)
         IN  [ k \in 1..(Len(first) * Len(rest)) |->
                 << first[((k - 1) \div Len(rest)) + 1] >>
                    \o rest[((k - 1) % Len(rest)) + 1] ]

\* a sample that may draw the same position again
random_sample_replacing(n, k) == [ 1..k -> 1..n ]

\* random.sample(population of n, k): the orders of positions it can return
random_sample(n, k) ==
    { s \in [ 1..k -> 1..n ] : \A i, j \in 1..k : i /= j => s[i] /= s[j] }

\* the positions of the product kept when nothing is sampled away
AllPositions(n) == [ i \in 1..n |-> i ]

RECURSIVE InsertByRmse_descending(_, _)
\* an insertion that puts the larger RMSE first
InsertByRmse_descending(sorted, r) ==
    IF sorted = << >> THEN << r >>
    ELSE IF r.metrics.rmse > Head(sorted).metrics.rmse
         THEN << r >> \o sorted
         ELSE << Head(sorted) >> \o InsertByRmse_descending(Tail(sorted), r)

RECURSIVE InsertByRmse(_, _)
InsertByRmse(sorted, r) ==
    IF sorted = << >> THEN << r >>
    ELSE IF r.metrics.rmse < Head(sorted).metrics.rmse
         THEN << r >> \o sorted
         ELSE << Head(sorted) >> \o InsertByRmse(Tail(sorted), r)

RECURSIVE SortFrom(_, _)
SortFrom(results, sorted) ==
    IF results = << >> THEN sorted
    ELSE SortFrom(Tail(results), InsertByRmse(sorted, Head(results)))

\* the results left in evaluation order
sort_by_rmse_skipped(results) == results

\* results.sort(key=lambda x: x['metrics'].rmse): stable, ascending
sort_by_rmse(results) == SortFrom(results, << >>)

----------------------------------------------------------------------------
(* Inputs *)

ModernFloor ==
    [ floor_area |-> 100, ceiling_height |-> 3, wall_u_value |-> 3,
      window_area |-> 15, window_u_value |-> 15, solar_heat_gain_coef |-> 4 ]

ModernEquipment ==
    [ lighting_power_density |-> 8, oa_equipment_power_density |-> 12,
      central_ahu_capacity |-> 12, central_ahu_fan_power |-> 1,
      central_chiller_capacity |-> 35, central_chiller_cop |-> 45,
      local_ac_capacity |-> 6, local_ac_cop |-> 40, local_ac_fan_power |-> 1 ]

January ==
    [ month |-> 1, outdoor_temp |-> 5, outdoor_humidity |-> 50,
      indoor_temp_setpoint |-> 22, indoor_humidity_setpoint |-> 40,
      supply_air_temp |-> 30, occupancy |-> 5, occupancy_rate |-> 60,
      operation_hours |-> 100 ]

July ==
    [ month |-> 7, outdoor_temp |-> 30, outdoor_humidity |-> 75,
      indoor_temp_setpoint |-> 26, indoor_humidity_setpoint |-> 50,
      supply_air_temp |-> 16, occupancy |-> 6, occupancy_rate |-> 70,
      operation_hours |-> 120 ]

ConditionLists ==
    { << >>, << July >>, << January, July >>, << July, January >> }

FloorFields == { "wall_u_value", "window_area" }
FloorValues == { 3, 8 }
EquipmentFields == { "central_chiller_cop", "lighting_power_density" }
EquipmentValues == { 45, 30 }

----------------------------------------------------------------------------
(* State *)

VARIABLES
    heap,       \* the objects: floor and equip by reference, conds by reference
    model,      \* << >> or << the BuildingEnergyModel the caller constructed >>
    lastRows,   \* << >> or << rows of the latest simulate_year on model >>
    prevRows,   \* the same for the call before the latest
    lastSnap,   \* << >> or << heap at the start of the latest call >>
    prevSnap,   \* the same for the call before the latest
    op,         \* the operation that produced this state
    pc,         \* "idle", "grid", "opt", "done" or "again" (the call was
                \* repeated): where calibrate stands
    args,       \* the arguments of the calibrate call
    combinations, \* grid search: the parameter dicts to evaluate, in order
    positions,  \* grid search: the product position of each of them
    idx,        \* grid search: the next combination
    results,    \* grid search: the results list
    history,    \* optimizer: the history list
    evals,      \* optimizer: the objective calls made
    simCalls,   \* simulate_year calls made by this calibrate call
    outcome,    \* how the search call ended
    fnCall,     \* the function applied on its own and its arguments
    fnRet       \* what that function returned or raised

simVars == << model, lastRows, prevRows, lastSnap, prevSnap >>
calVars == << pc, args, combinations, positions, idx, results, history,
              evals, simCalls, outcome >>
fnVars == << fnCall, fnRet >>
vars == << heap, model, lastRows, prevRows, lastSnap, prevSnap, op,
           pc, args, combinations, positions, idx, results, history,
           evals, simCalls, outcome, fnCall, fnRet >>

NoCall == [ fn |-> "" ]

NoArgs ==
    [ method |-> "", parameter_ranges |-> << >>, actual_data |-> << >>,
      comparison_target |-> "" ]

NoOutcome ==
    [ status |-> "none", stage |-> "", exc |-> "", results |-> << >>,
      response |-> "" ]

Init ==
    /\ \E conds \in ConditionLists :
         heap = [ floor |-> [ r \in FloorRefs |-> ModernFloor ],
                  equip |-> [ r \in FloorRefs |-> ModernEquipment ],
                  conds |-> [ caller |-> conds ] ]
    /\ model = << >>
    /\ lastRows = << >>
    /\ prevRows = << >>
    /\ lastSnap = << >>
    /\ prevSnap = << >>
    /\ op = "init"
    /\ pc = "idle"
    /\ args = NoArgs
    /\ combinations = << >>
    /\ positions = << >>
    /\ idx = 0
    /\ results = << >>
    /\ history = << >>
    /\ evals = << >>
    /\ simCalls = 0
    /\ outcome = NoOutcome
    /\ fnCall = NoCall
    /\ fnRet = << >>

----------------------------------------------------------------------------
(* The caller and its model *)

\* model = BuildingEnergyModel(floor_spec, equipment_spec, monthly_conditions)
Construct ==
    /\ model' = << BuildingEnergyModel("caller", "caller", "caller") >>
    /\ lastRows' = << >>
    /\ prevRows' = << >>
    /\ lastSnap' = << >>
    /\ prevSnap' = << >>
    /\ op' = "construct"
    /\ UNCHANGED << heap, calVars, fnVars >>

\* model.simulate_year()
SimulateYear ==
    /\ model /= << >>
    /\ LET sim == simulate_year(model[1], heap)
       IN  /\ heap' = sim.heap
           /\ lastRows' = << sim.rows >>
           /\ prevRows' = lastRows
           /\ lastSnap' = << heap >>
           /\ prevSnap' = lastSnap
    /\ op' = "simulate"
    /\ UNCHANGED << model, calVars, fnVars >>

\* floor_spec.<field> = value, by the caller that owns the object
MutateFloorSpec ==
    /\ \E field \in FloorFields, value \in FloorValues :
         heap' = [heap EXCEPT !.floor["caller"] = SetAttr(@, field, value)]
    /\ op' = "mutate"
    /\ UNCHANGED << simVars, calVars, fnVars >>

\* equipment_spec.<field> = value, by the caller that owns the object
MutateEquipmentSpec ==
    /\ \E field \in EquipmentFields, value \in EquipmentValues :
         heap' = [heap EXCEPT !.equip["caller"] = SetAttr(@, field, value)]
    /\ op' = "mutate"
    /\ UNCHANGED << simVars, calVars, fnVars >>

SimNext == Construct \/ SimulateYear \/ MutateFloorSpec \/ MutateEquipmentSpec

SimSpec == Init /\ [][SimNext]_vars

----------------------------------------------------------------------------
(* Calibration inputs *)

None == << >>

Some(v) == << v >>

ParameterRange(parameter_name, min_value, max_value, step, num_steps) ==
    [ parameter_name |-> parameter_name, min_value |-> min_value,
      max_value |-> max_value, step |-> step, num_steps |-> num_steps ]

WallRange ==
    ParameterRange(<< "floor_spec", "wall_u_value" >>, 3, 9, None, 3)
CopRange ==
    ParameterRange(<< "equipment_spec", "central_chiller_cop" >>, 30, 50,
                   Some(20), 10)
UnknownFieldRange ==
    ParameterRange(<< "floor_spec", "wall_u" >>, 3, 9, None, 2)
UnknownPrefixRange ==
    ParameterRange(<< "building", "wall_u_value" >>, 3, 9, None, 2)
ReversedRange ==
    ParameterRange(<< "floor_spec", "wall_u_value" >>, 9, 3, None, 2)
NoFieldRange ==
    ParameterRange(<< "equipment_spec" >>, 30, 50, None, 2)
LocalCopRange ==
    ParameterRange(<< "equipment_spec", "local_ac_cop" >>, 30, 40, None, 2)
CoarseWallRange ==
    ParameterRange(<< "floor_spec", "wall_u_value" >>, 3, 9, None, 2)
PinnedRange ==
    ParameterRange(<< "floor_spec", "wall_u_value" >>, 6, 6, None, 1)

RangeLists ==
    { << >>,
      << WallRange >>,
      << CopRange >>,
      << WallRange, CopRange >>,
      << UnknownFieldRange >>,
      << UnknownPrefixRange >>,
      << ReversedRange >>,
      << NoFieldRange >>,
      << LocalCopRange >>,
      << CoarseWallRange, PinnedRange >>,
      << CopRange, UnknownPrefixRange >> }

ActualData(month, central_total_kWh, local_total_kWh, total_kWh) ==
    [ month |-> month, central_total_kWh |-> central_total_kWh,
      local_total_kWh |-> local_total_kWh, total_kWh |-> total_kWh ]

ActualPool ==
    { << >>,
      << ActualData(1, Some(250), Some(265), Some(515)) >>,
      << ActualData(2, Some(138), None, Some(290)),
         ActualData(1, Some(252), Some(260), Some(510)) >>,
      << ActualData(3, Some(250), Some(265), Some(515)) >>,
      << ActualData(0, Some(140), Some(145), Some(285)) >> }

Targets == { "total_kWh", "local_total_kWh" }

Methods == { "grid", "optimize", "random" }

\* the fields a dotted name can address
FieldsOf(prefix) ==
    IF prefix = "floor_spec" THEN DOMAIN ModernFloor
    ELSE IF prefix = "equipment_spec" THEN DOMAIN ModernEquipment
    ELSE { }

BoxValues(param_range) ==
    { param_range.min_value, param_range.max_value }

RECURSIVE Box(_)
\* the candidate vectors the optimizer may hand to the objective: every
\* coordinate at an end of its bounds
Box(parameter_ranges) ==
    IF parameter_ranges = << >> THEN { << >> }
    ELSE { << v >> \o rest : v \in BoxValues(Head(parameter_ranges)),
                             rest \in Box(Tail(parameter_ranges)) }

----------------------------------------------------------------------------
(* calibrate_parameters and the two searches *)

PENALTY == 2000000000
HISTORY_TAIL == 10

Names(d) == [ i \in 1..Len(d) |-> d[i].name ]

Values(d) == [ i \in 1..Len(d) |-> d[i].value ]

\* the positions of the product that grid_search_calibration evaluates, in
\* evaluation order: the choices left to random.sample
SelectPositions(n, max_combinations) ==
    IF n > max_combinations THEN random_sample(n, max_combinations)
    ELSE { AllPositions(n) }

\* the first n entries instead of the last n
FirstN(s, n) == IF Len(s) <= n THEN s ELSE SubSeq(s, 1, n)

\* s[-n:]
LastN(s, n) == IF Len(s) <= n THEN s ELSE SubSeq(s, Len(s) - n + 1, Len(s))

\* what the route answers once the search call has ended
Response(status, search_results) ==
    IF status = "raised" THEN "error"
    ELSE IF search_results = << >> THEN "error"
    ELSE "ok"

Ended(status, stage, exc, search_results) ==
    [ status |-> status, stage |-> stage, exc |-> exc,
      results |-> search_results,
      response |-> Response(status, search_results) ]

\* the per-trial copies are unreachable once the call has ended
Release(h) ==
    [h EXCEPT !.floor["trial"] = ModernFloor, !.equip["trial"] = ModernEquipment]

\* request.method is neither "grid" nor "optimize"
\* a dispatch that runs the grid search for a method it does not know
Dispatch_fallback(method) ==
    IF method = "optimize" THEN "optimize_calibration"
    ELSE "grid_search_calibration"

\* the branch calibrate_parameters takes for request.method
Dispatch(method) ==
    IF method = "grid" THEN "grid_search_calibration"
    ELSE IF method = "optimize" THEN "optimize_calibration"
    ELSE "ValueError"

CalibrateUnknownMethod ==
    /\ pc = "idle"
    /\ \E method \in { m \in Methods : Dispatch(m) = "ValueError" },
          parameter_ranges \in RangeLists,
          actual_data \in ActualPool,
          comparison_target \in Targets :
         args' = [ method |-> method, parameter_ranges |-> parameter_ranges,
                   actual_data |-> actual_data,
                   comparison_target |-> comparison_target ]
    /\ outcome' = Ended("raised", "boundary", "ValueError", << >>)
    /\ pc' = "done"
    /\ op' = "calibrate"
    /\ UNCHANGED << heap, simVars, fnVars, combinations, positions, idx, results,
                    history, evals, simCalls >>

\* grid_search_calibration up to the loop over the combinations
GridSearchStart ==
    /\ pc = "idle"
    /\ \E method \in { m \in Methods :
                            Dispatch(m) = "grid_search_calibration" },
          parameter_ranges \in RangeLists,
          actual_data \in ActualPool,
          comparison_target \in Targets :
         \E param_grids \in { ParamGrids(parameter_ranges) } :
         \E all \in { product(Values(param_grids)) } :
         \E picked \in SelectPositions(Len(all), MaxCombinations) :
            /\ args' = [ method |-> method,
                         parameter_ranges |-> parameter_ranges,
                         actual_data |-> actual_data,
                         comparison_target |-> comparison_target ]
            /\ combinations' = [ i \in 1..Len(picked) |->
                    DictFrom(<< >>, Zip(Names(param_grids), all[picked[i]])) ]
            /\ positions' = picked
            /\ IF Len(picked) = 0
               THEN /\ pc' = "done"
                    /\ outcome' = Ended("returned", "", "", sort_by_rmse(<< >>))
               ELSE /\ pc' = "grid"
                    /\ outcome' = NoOutcome
    /\ idx' = 1
    /\ results' = << >>
    /\ op' = "calibrate"
    /\ UNCHANGED << heap, simVars, fnVars, history, evals, simCalls >>

\* one pass of the loop of grid_search_calibration; the last pass sorts
\* the results and returns them
GridSearchTrial ==
    /\ pc = "grid"
    /\ \E trial \in { EvaluateTrial(heap, combinations[idx], args.actual_data,
                                    args.comparison_target) } :
         /\ simCalls' = simCalls + trial.calls
         /\ IF trial.exc /= ""
            THEN /\ heap' = Release(trial.heap)
                 /\ pc' = "done"
                 /\ outcome' = Ended("raised", "trial", trial.exc, << >>)
                 /\ UNCHANGED << idx, results >>
            ELSE \E appended \in { Append(results,
                        [ parameters |-> combinations[idx],
                          metrics |-> trial.metrics[1],
                          simulation_results |-> Some(trial.rows) ]) } :
                 IF idx = Len(combinations)
                 THEN \E sorted \in { sort_by_rmse(appended) } :
                        /\ heap' = Release(trial.heap)
                        /\ pc' = "done"
                        /\ results' = sorted
                        /\ outcome' = Ended("returned", "", "", sorted)
                        /\ idx' = idx
                 ELSE /\ heap' = trial.heap
                      /\ pc' = "grid"
                      /\ results' = appended
                      /\ idx' = idx + 1
                      /\ UNCHANGED outcome
    /\ op' = "calibrate"
    /\ UNCHANGED << simVars, fnVars, args, combinations, positions, history, evals >>

\* dict(zip(param_names, x))
ObjectiveParameters(call, x) ==
    DictFrom(<< >>, Zip([ i \in 1..Len(call.parameter_ranges) |->
                            call.parameter_ranges[i].parameter_name ], x))

HistoryEntry(parameters, metrics) ==
    [ parameters |-> parameters, metrics |-> metrics,
      simulation_results |-> None ]

\* an objective that lets the exception of a trial through
objective_function_unguarded(h, call, hist, x) ==
    Only({ IF trial.exc = ""
           THEN [ ret |-> trial.metrics[1].rmse, raised |-> "",
                  trial_exc |-> "", heap |-> trial.heap,
                  calls |-> trial.calls,
                  history |-> Append(hist,
                        HistoryEntry(ObjectiveParameters(call, x),
                                     trial.metrics[1])) ]
           ELSE [ ret |-> PENALTY, raised |-> trial.exc,
                  trial_exc |-> trial.exc, heap |-> trial.heap,
                  calls |-> trial.calls, history |-> hist ] :
           trial \in { EvaluateTrial(h, ObjectiveParameters(call, x),
                                     call.actual_data,
                                     call.comparison_target) } })

\* objective_function(x) of optimize_calibration on heap h with history
\* hist: ret is the value returned to the optimizer, raised the exception
\* that leaves the objective, trial_exc the exception raised inside it
objective_function(h, call, hist, x) ==
    Only({ IF trial.exc = ""
           THEN [ ret |-> trial.metrics[1].rmse, raised |-> "",
                  trial_exc |-> "", heap |-> trial.heap,
                  calls |-> trial.calls,
                  history |-> Append(hist,
                        HistoryEntry(ObjectiveParameters(call, x),
                                     trial.metrics[1])) ]
           ELSE [ ret |-> PENALTY, raised |-> "",
                  trial_exc |-> trial.exc, heap |-> trial.heap,
                  calls |-> trial.calls, history |-> hist ] :
           trial \in { EvaluateTrial(h, ObjectiveParameters(call, x),
                                     call.actual_data,
                                     call.comparison_target) } })

\* optimize_calibration up to the call of differential_evolution, whose
\* bounds are (min_value, max_value) pairs with min_value <= max_value
OptimizeStart ==
    /\ pc = "idle"
    /\ \E method \in { m \in Methods :
                            Dispatch(m) = "optimize_calibration" },
          parameter_ranges \in RangeLists,
          actual_data \in ActualPool,
          comparison_target \in Targets :
         /\ \A i \in 1..Len(parameter_ranges) :
                parameter_ranges[i].min_value <= parameter_ranges[i].max_value
         /\ args' = [ method |-> method,
                      parameter_ranges |-> parameter_ranges,
                      actual_data |-> actual_data,
                      comparison_target |-> comparison_target ]
    /\ pc' = "opt"
    /\ history' = << >>
    /\ evals' = << >>
    /\ outcome' = NoOutcome
    /\ op' = "calibrate"
    /\ UNCHANGED << heap, simVars, fnVars, combinations, positions, idx, results,
                    simCalls >>

\* the vectors differential_evolution may try next: any corner of the box
\* for its first MaxTrials calls; after them a search over at most one
\* parameter that has settled on a vector that scored has that vector
\* evaluated again, up to MaxEvaluations calls
TrialVectors(call, done) ==
    IF Len(done) < MaxTrials
    THEN Box(call.parameter_ranges)
    ELSE { done[i].x : i \in { j \in { Len(done) } :
                                /\ done[j].exc = ""
                                /\ Len(call.parameter_ranges) <= 1 } }

\* differential_evolution calls the objective with a vector of its choice
OptimizeTrial ==
    /\ pc = "opt"
    /\ Len(evals) < MaxEvaluations
    /\ \E x \in TrialVectors(args, evals) :
       \E obj \in { objective_function(heap, args, history, x) } :
         /\ evals' = Append(evals, [ x |-> x, score |-> obj.ret,
                                     exc |-> obj.trial_exc ])
         /\ history' = obj.history
         /\ simCalls' = simCalls + obj.calls
         /\ IF obj.raised /= ""
            THEN /\ heap' = Release(obj.heap)
                 /\ pc' = "done"
                 /\ outcome' = Ended("raised", "trial", obj.raised, << >>)
            ELSE /\ heap' = obj.heap
                 /\ pc' = "opt"
                 /\ UNCHANGED outcome
    /\ op' = "calibrate"
    /\ UNCHANGED << simVars, fnVars, args, combinations, positions, idx, results >>

\* the calls of the objective that evaluate a member of the population;
\* the calls after them belong to the polishing step (polish is on by
\* default), whose vectors reach the objective, and the history, as well
PopulationCalls == MaxTrials - 1

\* the calls whose vector differential_evolution may return as result.x:
\* the population alone when it rejects the polishing step, every call
\* when it accepts it
Candidates(done) ==
    { { i \in 1..Len(done) : i <= PopulationCalls }, 1..Len(done) }

\* differential_evolution returns a candidate vector of lowest score (k is
\* the call that first tried it); the rest of optimize_calibration
\* evaluates it once more and assembles the results
OptimizeFinish ==
    /\ pc = "opt"
    /\ Len(evals) >= 1
    \* a run ends within its first MaxTrials calls or after as many calls as
    \* the history tail keeps
    /\ Len(evals) <= MaxTrials \/ Len(evals) >= HISTORY_TAIL
    /\ \E kept \in Candidates(evals) : \E k \in kept :
         /\ \A j \in kept : evals[k].score <= evals[j].score
         /\ \A j \in kept : j < k => evals[j].x /= evals[k].x
         /\ \E best_parameters \in { ObjectiveParameters(args, evals[k].x) } :
            \E trial \in { EvaluateTrial(heap, best_parameters,
                                args.actual_data, args.comparison_target) } :
              /\ heap' = Release(trial.heap)
              /\ simCalls' = simCalls + trial.calls
              /\ IF trial.exc /= ""
                 THEN /\ outcome' = Ended("raised", "final", trial.exc, << >>)
                      /\ UNCHANGED results
                 ELSE \E assembled \in {
                            << [ parameters |-> best_parameters,
                                 metrics |-> trial.metrics[1],
                                 simulation_results |-> Some(trial.rows) ] >>
                            \o LastN(history, HISTORY_TAIL) } :
                        /\ outcome' = Ended("returned", "", "", assembled)
                        /\ results' = assembled
    /\ pc' = "done"
    /\ op' = "calibrate"
    /\ UNCHANGED << simVars, fnVars, args, combinations, positions, idx, history,
                    evals >>

\* seed=42 of the differential_evolution call
SEED == 42

\* a generator seeded from fresh entropy in every run
RandomState_entropy(seed, run) == run

\* np.random.RandomState(seed) of run number run: the stream of draws the
\* run takes its vectors from
RandomState(seed, run) == seed

RECURSIVE Rerun(_, _, _, _, _, _, _)
\* the objective calls of a further differential_evolution run, first
\* being the calls of the first run: as long as the run draws from the
\* stream of the first and has seen the scores the first saw, it tries the
\* vector the first tried; otherwise it tries the vector other
Rerun(h, call, first, same, other, done, hist) ==
    IF Len(done) = Len(first)
    THEN [ heap |-> h, evals |-> done, history |-> hist,
           agree |-> same /\ \A j \in 1..Len(done) :
                                done[j].score = first[j].score ]
    ELSE Only({ Only({ Rerun(obj.heap, call, first, same, other,
                             Append(done, [ x |-> x, score |-> obj.ret,
                                            exc |-> obj.trial_exc ]),
                             obj.history) :
                       obj \in { objective_function(h, call, hist, x) } }) :
                x \in { IF same /\ \A j \in 1..Len(done) :
                                        done[j].score = first[j].score
                        THEN first[Len(done) + 1].x
                        ELSE other } })

\* optimize_calibration called once more with the arguments of the call
\* that returned
OptimizeAgain ==
    /\ pc = "done"
    /\ Dispatch(args.method) = "optimize_calibration"
    /\ outcome.status = "returned"
    /\ fnCall = NoCall
    /\ \E same \in { RandomState(SEED, 1) = RandomState(SEED, 2) } :
       \E other \in IF same THEN { evals[1].x }
                     ELSE Box(args.parameter_ranges) :
       \E run \in { Rerun(heap, args, evals, same, other, << >>, << >>) } :
       \E best_parameters \in {
                IF run.agree THEN outcome.results[1].parameters
                ELSE ObjectiveParameters(args, other) } :
       \E trial \in { EvaluateTrial(run.heap, best_parameters,
                            args.actual_data, args.comparison_target) } :
         /\ heap' = Release(trial.heap)
         /\ fnCall' = [ fn |-> "optimize_calibration", run |-> 2 ]
         /\ fnRet' = [ exc |-> trial.exc,
                       evals |-> run.evals,
                       results |->
                         IF trial.exc /= "" THEN << >>
                         ELSE << [ parameters |-> best_parameters,
                                   metrics |-> trial.metrics[1],
                                   simulation_results |-> Some(trial.rows) ] >>
                              \o LastN(run.history, HISTORY_TAIL) ]
    /\ pc' = "again"
    /\ op' = "calibrate"
    /\ UNCHANGED << simVars, args, combinations, positions, idx, results,
                    history, evals, simCalls, outcome >>

\* the next request: the state of the call that ended is dropped
NextRequest ==
    /\ pc \in { "done", "again" }
    /\ pc' = "idle"
    /\ args' = NoArgs
    /\ combinations' = << >>
    /\ positions' = << >>
    /\ idx' = 0
    /\ results' = << >>
    /\ history' = << >>
    /\ evals' = << >>
    /\ simCalls' = 0
    /\ outcome' = NoOutcome
    /\ fnCall' = NoCall
    /\ fnRet' = << >>
    /\ op' = "init"
    /\ UNCHANGED << heap, simVars >>

CalNext ==
    \/ CalibrateUnknownMethod
    \/ GridSearchStart
    \/ GridSearchTrial
    \/ OptimizeStart
    \/ OptimizeTrial
    \/ OptimizeFinish
    \/ OptimizeAgain
    \/ NextRequest

CalSpec == Init /\ [][CalNext]_vars

----------------------------------------------------------------------------
(* The functions of the library applied on their own, one call in a run *)

\* the values of the sequences handed to calculate_metrics
MetricValues == { NaN, 0, 100, 250 }

\* the sequences of length n over S
SeqsOf(S, n) == [ 1..n -> S ]

\* metrics = calculate_metrics(simulated, actual)
CallCalculateMetrics ==
    /\ fnCall = NoCall
    /\ \E n \in 0..MaxPairs :
       \E simulated \in SeqsOf(MetricValues, n),
          actual \in SeqsOf(MetricValues, n) :
         /\ fnCall' = [ fn |-> "calculate_metrics",
                        simulated |-> simulated, actual |-> actual ]
         /\ fnRet' = calculate_metrics(simulated, actual)
    /\ op' = "call"
    /\ UNCHANGED << heap, simVars, calVars >>

\* physically valid inputs: temperatures within [-30, 50], humidities
\* within [0, 100], fan power and operation hours >= 0, COP > 0
ValidFloors ==
    { ModernFloor,
      [ModernFloor EXCEPT !.wall_u_value = 8, !.window_u_value = 30],
      [ModernFloor EXCEPT !.window_area = 0] }

ValidEquipment ==
    { [ModernEquipment EXCEPT !.central_chiller_cop = cop,
                              !.local_ac_cop = cop,
                              !.central_ahu_fan_power = fan,
                              !.local_ac_fan_power = fan] :
        cop \in { 10, 45 }, fan \in { 0, 1 } }

ValidConditions ==
    [ month : { 1, 7 },
      outdoor_temp : { -30, 5, 26, 35, 50 },
      outdoor_humidity : { 0, 50, 100 },
      indoor_temp_setpoint : { 22, 26 },
      indoor_humidity_setpoint : { 50 },
      supply_air_temp : { 16 },
      occupancy : { 0, 6 },
      occupancy_rate : { 0, 70 },
      operation_hours : { 0, 120 } ]

\* the heap of a caller that holds floor, equipment and conditions
HeapOf(floor, equipment, conditions) ==
    [ floor |-> [ r \in FloorRefs |-> floor ],
      equip |-> [ r \in FloorRefs |-> equipment ],
      conds |-> [ caller |-> conditions ] ]

\* BuildingEnergyModel(floor, equipment, [condition]).simulate_year()
CallSimulateYear ==
    /\ fnCall = NoCall
    /\ \E floor \in ValidFloors, equipment \in ValidEquipment,
          condition \in ValidConditions :
         /\ fnCall' = [ fn |-> "simulate_year", floor_spec |-> floor,
                        equipment_spec |-> equipment,
                        monthly_conditions |-> << condition >> ]
         /\ fnRet' = simulate_year(
                        BuildingEnergyModel("caller", "caller", "caller"),
                        HeapOf(floor, equipment, << condition >>)).rows
    /\ op' = "call"
    /\ UNCHANGED << heap, simVars, calVars >>

RECURSIVE Digits(_)
\* the decimal digits of n >= 0, most significant first
Digits(n) ==
    IF n < 10 THEN << n >> ELSE Append(Digits(n \div 10), n % 10)

RECURSIVE FromDigits(_)
\* the number a sequence of decimal digits denotes
FromDigits(digits) ==
    IF digits = << >> THEN 0
    ELSE 10 * FromDigits(SubSeq(digits, 1, Len(digits) - 1))
            + digits[Len(digits)]

\* a number written without its sign
json_dumps_number_unsigned(v) == [ minus |-> FALSE, digits |-> Digits(Abs(v)) ]

\* json.dump of a number: its text, a sign and digits
json_dumps_number(v) == [ minus |-> v < 0, digits |-> Digits(Abs(v)) ]

\* json.load of the text of a number
json_loads_number(text) ==
    IF text.minus THEN -FromDigits(text.digits) ELSE FromDigits(text.digits)

\* to_dict: asdict(self), a dict keyed by the field names
to_dict(obj) == [ name \in DOMAIN obj |-> obj[name] ]

\* from_dict: cls(**data), which takes exactly the fields of the class
from_dict(fields, data) ==
    IF DOMAIN data = fields
    THEN [ exc |-> "", obj |-> << [ name \in fields |-> data[name] ] >> ]
    ELSE [ exc |-> "TypeError", obj |-> << >> ]

\* json.dump of a dict of numbers
json_dump_object(d) == [ key \in DOMAIN d |-> json_dumps_number(d[key]) ]

\* json.load of the text of a dict of numbers
json_load_object(text) ==
    [ key \in DOMAIN text |-> json_loads_number(text[key]) ]

\* save_config of model object m on heap h: the file it writes
save_config(m, h) ==
    [ floor_spec |-> json_dump_object(to_dict(h.floor[m.floor_spec])),
      equipment_spec |->
            json_dump_object(to_dict(h.equip[m.equipment_spec])),
      monthly_conditions |->
            [ i \in 1..Len(h.conds[m.monthly_conditions]) |->
                json_dump_object(
                    to_dict(h.conds[m.monthly_conditions][i])) ] ]

\* load_config of a file: the objects of the model it constructs
load_config(file) ==
    LET floor == from_dict(DOMAIN ModernFloor,
                           json_load_object(file.floor_spec))
        equipment == from_dict(DOMAIN ModernEquipment,
                               json_load_object(file.equipment_spec))
        conditions == [ i \in 1..Len(file.monthly_conditions) |->
                            from_dict(DOMAIN January,
                                json_load_object(file.monthly_conditions[i])) ]
    IN  IF \/ floor.exc /= ""
           \/ equipment.exc /= ""
           \/ \E i \in 1..Len(conditions) : conditions[i].exc /= ""
        THEN [ exc |-> "TypeError", floor_spec |-> << >>,
               equipment_spec |-> << >>, monthly_conditions |-> << >> ]
        ELSE [ exc |-> "", floor_spec |-> floor.obj[1],
               equipment_spec |-> equipment.obj[1],
               monthly_conditions |->
                    [ i \in 1..Len(conditions) |-> conditions[i].obj[1] ] ]

ColdJanuary == [January EXCEPT !.outdoor_temp = -5]

SavedConditionLists ==
    ConditionLists \cup { << ColdJanuary >>, << July, ColdJanuary >> }

\* model.save_config(path); reloaded = BuildingEnergyModel.load_config(path)
CallSaveLoadConfig ==
    /\ fnCall = NoCall
    /\ \E floor \in ValidFloors, equipment \in ValidEquipment,
          conditions \in SavedConditionLists :
       \E m \in { BuildingEnergyModel("caller", "caller", "caller") } :
       \E reloaded \in { load_config(
                save_config(m, HeapOf(floor, equipment, conditions))) } :
         /\ fnCall' = [ fn |-> "save_config", floor_spec |-> floor,
                        equipment_spec |-> equipment,
                        monthly_conditions |-> conditions ]
         /\ fnRet' = [ exc |-> reloaded.exc,
                       floor_spec |-> reloaded.floor_spec,
                       equipment_spec |-> reloaded.equipment_spec,
                       monthly_conditions |-> reloaded.monthly_conditions,
                       original_rows |->
                            simulate_year(m,
                                HeapOf(floor, equipment, conditions)).rows,
                       reloaded_rows |->
                            IF reloaded.exc /= "" THEN << >>
                            ELSE simulate_year(m,
                                    HeapOf(reloaded.floor_spec,
                                           reloaded.equipment_spec,
                                           reloaded.monthly_conditions)).rows ]
    /\ op' = "call"
    /\ UNCHANGED << heap, simVars, calVars >>

\* max_combinations when the caller leaves it out
DEFAULT_MAX_COMBINATIONS == 1000

RECURSIVE GridLoop(_, _, _, _, _, _)
\* the loop of grid_search_calibration from combination i on, then the sort
GridLoop(h, todo, i, actual_data, comparison_target, done) ==
    IF i > Len(todo)
    THEN [ exc |-> "", results |-> sort_by_rmse(done) ]
    ELSE Only({ IF trial.exc /= ""
                THEN [ exc |-> trial.exc, results |-> << >> ]
                ELSE GridLoop(trial.heap, todo, i + 1, actual_data,
                              comparison_target,
                              Append(done,
                                [ parameters |-> todo[i],
                                  metrics |-> trial.metrics[1],
                                  simulation_results |-> Some(trial.rows) ])) :
                trial \in { EvaluateTrial(h, todo[i], actual_data,
                                          comparison_target) } })

\* grid_search_calibration on the caller's objects of heap h, with the
\* positions of the product it evaluates given
grid_search_calibration(h, actual_data, comparison_target, parameter_ranges, picked) ==
    LET param_grids == ParamGrids(parameter_ranges)
        all == product(Values(param_grids))
    IN  GridLoop(h,
                 [ i \in 1..Len(picked) |->
                    DictFrom(<< >>, Zip(Names(param_grids), all[picked[i]])) ],
                 1, actual_data, comparison_target, << >>)

\* the single ranges calibrated against synthetic data
WallSweep ==
    ParameterRange(<< "floor_spec", "wall_u_value" >>, 3, 9, None, 4)
CopSweep ==
    ParameterRange(<< "equipment_spec", "central_chiller_cop" >>, 30, 50,
                   None, 3)
SweepRanges == { WallSweep, CopSweep }

\* ground truths inside the range: its grid values and the values one
\* above each of them
GroundTruths(param_range) ==
    LET grid == GridValues(param_range)
    IN  { grid[i] : i \in 1..Len(grid) }
            \cup { grid[i] + 1 : i \in 1..(Len(grid) - 1) }

SweepTargets == { "total_kWh", "central_total_kWh", "local_total_kWh" }

\* the actual data that simulate_year yields: one entry per row, in order
SyntheticActual(rows) ==
    [ i \in 1..Len(rows) |->
        ActualData(i, Some(rows[i].central_total_kWh),
                   Some(rows[i].local_total_kWh),
                   Some(rows[i].central_total_kWh
                            + rows[i].local_total_kWh)) ]

\* actual = simulate_year at the ground truth; grid_search_calibration of
\* the range against it
CallGridSearchOnSynthetic ==
    /\ fnCall = NoCall
    /\ \E param_range \in SweepRanges,
          conditions \in ConditionLists \ { << >> },
          comparison_target \in SweepTargets :
       \E truth \in GroundTruths(param_range) :
       \E h \in { HeapOf(ModernFloor, ModernEquipment, conditions) } :
       \E truth_run \in { run_simulation_with_params(h, "caller", "caller",
                "caller",
                << [ name |-> param_range.parameter_name,
                     value |-> truth ] >>) } :
       \E actual_data \in { SyntheticActual(truth_run.rows) } :
       \E picked \in SelectPositions(Len(GridValues(param_range)),
                                     DEFAULT_MAX_COMBINATIONS) :
       \E search \in { grid_search_calibration(h, actual_data,
                            comparison_target, << param_range >>, picked) } :
         /\ fnCall' = [ fn |-> "grid_search_calibration",
                        param_range |-> param_range,
                        truth |-> truth,
                        monthly_conditions |-> conditions,
                        actual_data |-> actual_data,
                        comparison_target |-> comparison_target ]
         /\ fnRet' = [ exc |-> search.exc,
                       results |-> [ k \in 1..Len(search.results) |->
                            [ parameters |-> search.results[k].parameters,
                              metrics |-> search.results[k].metrics ] ] ]
    /\ op' = "call"
    /\ UNCHANGED << heap, simVars, calVars >>

\* HeatLoadCalculator(floor).calculate_latent_load(condition)
CallCalculateLatentLoad ==
    /\ fnCall = NoCall
    /\ \E condition \in ValidConditions :
         /\ fnCall' = [ fn |-> "calculate_latent_load",
                        condition |-> condition ]
         /\ fnRet' = calculate_latent_load(condition)
    /\ op' = "call"
    /\ UNCHANGED << heap, simVars, calVars >>

\* the loads, in W, handed to the two energy functions
SystemLoads == { -1074, -240, 0, 240, 3500 }

\* HVACSystemModel(equipment).calculate_central_system_energy and
\* calculate_local_system_energy on a pair of loads and on the pair of
\* opposite sign
CallSystemEnergy ==
    /\ fnCall = NoCall
    /\ \E equipment \in ValidEquipment, condition \in ValidConditions,
          sensible_load \in SystemLoads, latent_load \in SystemLoads :
         /\ condition.occupancy = 6 /\ condition.occupancy_rate = 70
         /\ condition.outdoor_humidity = 50 /\ condition.month = 7
         /\ fnCall' = [ fn |-> "calculate_system_energy",
                        equipment_spec |-> equipment,
                        sensible_load |-> sensible_load,
                        latent_load |-> latent_load,
                        condition |-> condition ]
         /\ fnRet' = [ central |-> calculate_central_system_energy(equipment,
                            sensible_load, latent_load, condition),
                       local |-> calculate_local_system_energy(equipment,
                            sensible_load, latent_load, condition),
                       central_opposite |->
                            calculate_central_system_energy(equipment,
                                -sensible_load, -latent_load, condition),
                       local_opposite |->
                            calculate_local_system_energy(equipment,
                                -sensible_load, -latent_load, condition) ]
    /\ op' = "call"
    /\ UNCHANGED << heap, simVars, calVars >>

\* single ranges over wall_u_value, in tenths: an explicit step that
\* divides max_value - min_value, two that do not, and step counts
StepRanges ==
    { ParameterRange(<< "floor_spec", "wall_u_value" >>, 3, 9, Some(2), 10),
      ParameterRange(<< "floor_spec", "wall_u_value" >>, 3, 8, Some(2), 10),
      ParameterRange(<< "floor_spec", "wall_u_value" >>, 3, 8, Some(3), 10),
      ParameterRange(<< "floor_spec", "wall_u_value" >>, 3, 9, None, 4),
      ParameterRange(<< "floor_spec", "wall_u_value" >>, 3, 8, None, 3) }

\* grid_search_calibration of one range against the data the unchanged
\* specs yield
CallGridSearchOnRange ==
    /\ fnCall = NoCall
    /\ \E param_range \in StepRanges,
          conditions \in ConditionLists \ { << >> },
          comparison_target \in SweepTargets :
       \E h \in { HeapOf(ModernFloor, ModernEquipment, conditions) } :
       \E base \in { run_simulation_with_params(h, "caller", "caller",
                            "caller", << >>) } :
       \E actual_data \in { SyntheticActual(base.rows) } :
       \E picked \in SelectPositions(Len(GridValues(param_range)),
                                     DEFAULT_MAX_COMBINATIONS) :
       \E search \in { grid_search_calibration(h, actual_data,
                            comparison_target, << param_range >>, picked) } :
         /\ fnCall' = [ fn |-> "grid_search_on_range",
                        param_range |-> param_range,
                        monthly_conditions |-> conditions,
                        comparison_target |-> comparison_target ]
         /\ fnRet' = [ exc |-> search.exc,
                       results |-> [ k \in 1..Len(search.results) |->
                            [ parameters |-> search.results[k].parameters,
                              metrics |-> search.results[k].metrics ] ] ]
    /\ op' = "call"
    /\ UNCHANGED << heap, simVars, calVars >>

\* the actual data handed to extract_comparison_values: ActualPool and
\* entries for the calendar month 7 and for a month below zero
ExtractPool ==
    ActualPool
        \cup { << ActualData(7, Some(250), Some(265), Some(515)) >>,
               << ActualData(1, Some(250), None, Some(515)),
                  ActualData(7, Some(140), Some(145), Some(285)) >>,
               << ActualData(-1, Some(140), Some(145), Some(285)) >> }

\* extract_comparison_values(results_df, actual_data, comparison_target) on
\* the rows simulate_year returns for the conditions
CallExtractComparisonValues ==
    /\ fnCall = NoCall
    /\ \E conditions \in ConditionLists, actual_data \in ExtractPool,
          comparison_target \in SweepTargets :
       \E rows \in { simulate_year(
                        BuildingEnergyModel("caller", "caller", "caller"),
                        HeapOf(ModernFloor, ModernEquipment,
                               conditions)).rows } :
         /\ fnCall' = [ fn |-> "extract_comparison_values",
                        results_df |-> rows,
                        actual_data |-> actual_data,
                        comparison_target |-> comparison_target ]
         /\ fnRet' = extract_comparison_values(rows, actual_data,
                                               comparison_target)
    /\ op' = "call"
    /\ UNCHANGED << heap, simVars, calVars >>

\* HeatLoadCalculator(floor).calculate_sensible_load(condition, equipment)
CallCalculateSensibleLoad ==
    /\ fnCall = NoCall
    /\ \E floor \in ValidFloors, condition \in ValidConditions :
         /\ fnCall' = [ fn |-> "calculate_sensible_load",
                        floor_spec |-> floor,
                        equipment_spec |-> ModernEquipment,
                        condition |-> condition ]
         /\ fnRet' = calculate_sensible_load(floor, condition,
                                             ModernEquipment)
    /\ op' = "call"
    /\ UNCHANGED << heap, simVars, calVars >>

FnNext ==
    \/ CallCalculateMetrics
    \/ CallSimulateYear
    \/ CallSaveLoadConfig
    \/ CallGridSearchOnSynthetic
    \/ CallCalculateLatentLoad
    \/ CallSystemEnergy
    \/ CallGridSearchOnRange
    \/ CallExtractComparisonValues
    \/ CallCalculateSensibleLoad

FnSpec == Init /\ [][FnNext]_vars

----------------------------------------------------------------------------
(* Claims about the model object: checked under SimSpec *)

\* C1 (as stated): once the model is constructed, a change the caller makes
\* to its FloorSpec or EquipmentSpec is not observed: two simulate_year
\* calls on the same model return the same rows whatever the caller did
\* to the specs in between.
C1_MutationNotObserved ==
    (lastRows /= << >> /\ prevRows /= << >>) => lastRows = prevRows

\* C3: simulate_year returns one row per condition, in input order: as many
\* rows as conditions, and row i carries month, outdoor_temp, indoor_temp,
\* occupancy and occupancy_rate of condition i.
C3_OneRowPerCondition ==
    op = "simulate" =>
        LET rows == lastRows[1]
            conds == lastSnap[1].conds["caller"]
        IN  /\ Len(rows) = Len(conds)
            /\ \A i \in 1..Len(conds) :
                /\ rows[i].month = conds[i].month
                /\ rows[i].outdoor_temp = conds[i].outdoor_temp
                /\ rows[i].indoor_temp = conds[i].indoor_temp_setpoint
                /\ rows[i].occupancy = conds[i].occupancy
                /\ rows[i].occupancy_rate = conds[i].occupancy_rate

\* a call on two conditions that are not in calendar order
C3_Witness ==
    /\ op = "simulate"
    /\ Len(lastRows[1]) = 2
    /\ lastRows[1][1].month = 7
    /\ lastRows[1][2].month = 1

\* C4: simulate_year is deterministic and free of side effects: a call
\* leaves floor_spec, equipment_spec and monthly_conditions as they were,
\* and a call made on the same specs and conditions as the call before it
\* returns the same rows.
C4_DeterministicNoSideEffect ==
    op = "simulate" =>
        /\ heap = lastSnap[1]
        /\ (prevSnap /= << >> /\ prevSnap = lastSnap) => lastRows = prevRows

\* a repeated call on unchanged inputs that returned rows
C4_Witness ==
    /\ op = "simulate"
    /\ prevSnap /= << >>
    /\ prevSnap = lastSnap
    /\ Len(lastRows[1]) = 2

----------------------------------------------------------------------------
(* Claims about calibration: checked under CalSpec *)

\* C2: calibration trials leave the caller's FloorSpec, EquipmentSpec and
\* MonthlyCondition list with the field values they had: every step of a
\* search writes its overrides to the per-trial copy only.
C2_CallerSpecsUntouched ==
    [][ /\ heap'.floor["caller"] = heap.floor["caller"]
        /\ heap'.equip["caller"] = heap.equip["caller"]
        /\ heap'.conds["caller"] = heap.conds["caller"] ]_vars

\* a search in progress whose last trial overrode a field on its copy
C2_Witness ==
    /\ pc \in { "grid", "opt" }
    /\ simCalls >= 1
    /\ heap.floor["trial"].wall_u_value /= heap.floor["caller"].wall_u_value

\* C5 (as stated): the exception of a trial never escapes the search call,
\* neither from the loop of grid_search_calibration nor from the objective
\* or the final evaluation of optimize_calibration.
C5_TrialFailureContained ==
    ~(outcome.status = "raised" /\ outcome.stage \in { "trial", "final" })

TrialSucceeded(e) == e.exc = ""

\* C6: in optimize_calibration a trial whose objective raises is scored
\* with the penalty, adds nothing to the history and does not end the
\* search; the history holds, in order, exactly the trials that were
\* simulated, extracted and scored.
C6_FailedTrialScoredAndSkipped ==
    args.method = "optimize" =>
        LET succeeded == SelectSeq(evals, TrialSucceeded)
        IN  /\ \A i \in 1..Len(evals) :
                    evals[i].exc /= "" => evals[i].score = PENALTY
            /\ Len(history) = Len(succeeded)
            /\ \A j \in 1..Len(history) :
                /\ history[j].parameters
                        = ObjectiveParameters(args, succeeded[j].x)
                /\ history[j].metrics.rmse = succeeded[j].score
                /\ history[j].simulation_results = None
            /\ ~(outcome.status = "raised" /\ outcome.stage = "trial")

\* the optimizer went on to a second trial after a first one that raised
C6_Witness ==
    /\ args.method = "optimize"
    /\ Len(evals) = 2
    /\ evals[1].exc /= ""
    /\ evals[1].score = PENALTY
    /\ history = << >>

InvalidRange(r) ==
    \/ r.min_value > r.max_value
    \/ Len(r.parameter_name) /= 2
    \/ /\ Len(r.parameter_name) = 2
       /\ r.parameter_name[2] \notin FieldsOf(r.parameter_name[1])

\* C7 (as stated): a ParameterRange that names no field of floor_spec or
\* equipment_spec, or has min_value > max_value, makes calibrate fail
\* with an error before simulate_year is called once.
C7_InvalidRangeRejected ==
    (/\ args.method \in { "grid", "optimize" }
     /\ \E i \in 1..Len(args.parameter_ranges) :
            InvalidRange(args.parameter_ranges[i]))
    => /\ simCalls = 0
       /\ pc = "done" => outcome.response = "error"

\* C8: grid_search_calibration returns its results in ascending order of
\* RMSE.
C8_GridResultsSorted ==
    (args.method = "grid" /\ outcome.status = "returned") =>
        \A i \in 1..(Len(outcome.results) - 1) :
            outcome.results[i].metrics.rmse
                <= outcome.results[i + 1].metrics.rmse

\* a returned grid search whose best result was not the first one evaluated
C8_Witness ==
    /\ args.method = "grid"
    /\ outcome.status = "returned"
    /\ Len(outcome.results) >= 2
    /\ outcome.results[1].metrics.rmse < outcome.results[2].metrics.rmse
    /\ outcome.results[1].parameters /= combinations[1]

\* the number of candidate values the claim gives a range: its step count,
\* or the length of its grid when an explicit step is given
RangeSize(r) == IF r.step = None THEN r.num_steps ELSE Len(GridValues(r))

RECURSIVE AllRangesSize(_)
\* the size of the Cartesian product of all ranges
AllRangesSize(parameter_ranges) ==
    IF parameter_ranges = << >> THEN 1
    ELSE RangeSize(Head(parameter_ranges))
            * AllRangesSize(Tail(parameter_ranges))

\* the ranges that are the last of their parameter name
LastOfName(parameter_ranges) ==
    { i \in 1..Len(parameter_ranges) :
        \A j \in (i + 1)..Len(parameter_ranges) :
            parameter_ranges[j].parameter_name
                /= parameter_ranges[i].parameter_name }

RECURSIVE SizeOver(_, _)
SizeOver(parameter_ranges, indices) ==
    IF indices = { } THEN 1
    ELSE LET i == CHOOSE k \in indices : TRUE
         IN  RangeSize(parameter_ranges[i])
                * SizeOver(parameter_ranges, indices \ { i })

\* the size of the Cartesian product with one grid per parameter name
DistinctNamesSize(parameter_ranges) ==
    SizeOver(parameter_ranges, LastOfName(parameter_ranges))

\* every position of a product of n combinations evaluated once, and as
\* many results as positions
WholeProductEvaluated(n) ==
    /\ Len(outcome.results) = n
    /\ positions = AllPositions(n)
    /\ \A p \in 1..n :
        Cardinality({ i \in 1..Len(outcome.results) :
                        outcome.results[i].parameters = combinations[p] }) = 1

GridSize(parameter_ranges) ==
    Len(product(Values(ParamGrids(parameter_ranges))))

\* C10: when the product has more than max_combinations combinations, the
\* search evaluates max_combinations of them, each a member of the product
\* taken from a position of its own, and returns as many results.
C10_SampleWithoutReplacement ==
    (/\ args.method = "grid"
     /\ GridSize(args.parameter_ranges) > MaxCombinations)
    => LET grids == ParamGrids(args.parameter_ranges)
           all == product(Values(grids))
       IN  /\ Len(combinations) = MaxCombinations
           /\ Len(positions) = MaxCombinations
           /\ \A i \in 1..Len(positions) :
                /\ positions[i] \in 1..Len(all)
                /\ combinations[i]
                    = DictFrom(<< >>, Zip(Names(grids), all[positions[i]]))
                /\ \A j \in 1..Len(positions) :
                        i /= j => positions[i] /= positions[j]
           /\ outcome.status = "returned" =>
                /\ Len(outcome.results) = MaxCombinations
                /\ \A i \in 1..Len(combinations) :
                    \E k \in 1..Len(outcome.results) :
                        outcome.results[k].parameters = combinations[i]

\* a returned search over a product larger than max_combinations
C10_Witness ==
    /\ args.method = "grid"
    /\ outcome.status = "returned"
    /\ GridSize(args.parameter_ranges) > MaxCombinations
    /\ Len(outcome.results) = MaxCombinations

Min(a, b) == IF a <= b THEN a ELSE b

\* C11: optimize_calibration returns the best assignment followed by a
\* bounded tail of the history: 1 + min(10, successful trials) results, at
\* most 11; the results after the first are the last successful trials in
\* evaluation order, with parameters and metrics and no simulation
\* results; the first result alone carries the monthly rows.
C11_BestPlusHistoryTail ==
    (args.method = "optimize" /\ outcome.status = "returned") =>
        LET succeeded == SelectSeq(evals, TrialSucceeded)
            returned == outcome.results
            kept == Min(10, Len(succeeded))
        IN  /\ Len(returned) = 1 + kept
            /\ Len(returned) <= 11
            /\ returned[1].simulation_results /= None
            /\ Len(returned[1].simulation_results[1])
                    = Len(heap.conds["caller"])
            /\ \A i \in 1..kept :
                LET trial == succeeded[Len(succeeded) - kept + i]
                IN  /\ returned[1 + i].parameters
                            = ObjectiveParameters(args, trial.x)
                    /\ returned[1 + i].metrics.rmse = trial.score
                    /\ returned[1 + i].simulation_results = None

\* a returned run with more successful trials than the tail keeps, whose
\* early and late trials differ
C11_Witness ==
    /\ args.method = "optimize"
    /\ outcome.status = "returned"
    /\ Len(history) > HISTORY_TAIL
    /\ Len(outcome.results) = 11
    /\ history[1].parameters /= history[Len(history)].parameters

\* C12 (as stated): the first result of optimize_calibration is the best:
\* its RMSE is at most the RMSE of every history entry returned after it
\* and of every trial recorded during the search.
C12_FirstResultIsBest ==
    (args.method = "optimize" /\ outcome.status = "returned") =>
        /\ \A i \in 2..Len(outcome.results) :
                outcome.results[1].metrics.rmse
                    <= outcome.results[i].metrics.rmse
        /\ \A j \in 1..Len(history) :
                outcome.results[1].metrics.rmse <= history[j].metrics.rmse

\* the absolute error of actual-data entry data against the rows
ErrorOf(rows, data, comparison_target) ==
    Abs(SimValue(Iloc(rows, data.month - 1), comparison_target)
            - data[comparison_target][1])

\* C14 (as stated): max_error_month is the month of the largest absolute
\* error: every result of a returned grid search reports the month field
\* of an actual-data entry whose |simulated - actual| is the largest among
\* the entries compared, whatever months the list holds and in whatever
\* order.
C14_MaxErrorMonthIsMonth ==
    (args.method = "grid" /\ outcome.status = "returned") =>
        \A k \in 1..Len(outcome.results) :
            LET rows == outcome.results[k].simulation_results[1]
                target == args.comparison_target
                compared == { i \in 1..Len(args.actual_data) :
                                args.actual_data[i][target] /= None }
            IN  \E i \in compared :
                    /\ args.actual_data[i].month
                            = outcome.results[k].metrics.max_error_month
                    /\ \A j \in compared :
                            ErrorOf(rows, args.actual_data[j], target)
                                <= ErrorOf(rows, args.actual_data[i], target)

\* C15: a method other than "grid" and "optimize" is rejected with an
\* error at the boundary of calibrate, and no simulation or search trial
\* runs for the request.
C15_UnknownMethodRejected ==
    (args.method \notin { "", "grid", "optimize" }) =>
        /\ pc = "done"
        /\ outcome.status = "raised"
        /\ outcome.stage = "boundary"
        /\ outcome.response = "error"
        /\ simCalls = 0
        /\ combinations = << >>
        /\ results = << >>
        /\ evals = << >>

\* a request with an unknown method and ranges that a search could run on
C15_Witness ==
    /\ args.method = "random"
    /\ args.parameter_ranges = << WallRange >>
    /\ Len(args.actual_data) = 1
    /\ pc = "done"
    /\ outcome.response = "error"

----------------------------------------------------------------------------
(* Claims about single functions: checked under FnSpec *)

\* no pair of the two sequences is free of nan
NoValidPair(simulated, actual) ==
    \A i \in 1..Len(simulated) : simulated[i] = NaN \/ actual[i] = NaN

\* C13: calculate_metrics raises ValueError whenever no valid pair is left
\* once the pairs with a nan are dropped, two empty sequences included; it
\* returns no metrics then.
C13_NoDataRaises ==
    (/\ fnCall.fn = "calculate_metrics"
     /\ NoValidPair(fnCall.simulated, fnCall.actual))
    => /\ fnRet.exc = "ValueError"
       /\ fnRet.metrics = << >>

\* a call on two pairs, each with a nan on one side, that raised
C13_Witness ==
    /\ fnCall.fn = "calculate_metrics"
    /\ Len(fnCall.simulated) = 2
    /\ fnCall.simulated[1] = NaN
    /\ fnCall.actual[1] /= NaN
    /\ fnCall.actual[2] = NaN
    /\ fnRet.exc = "ValueError"

\* C16: for every month of a physically valid input the energy totals
\* central_total_kWh and local_total_kWh are not negative, whatever the
\* sign of the total load.
C16_EnergyTotalsNotNegative ==
    fnCall.fn = "simulate_year" =>
        \A i \in 1..Len(fnRet) :
            /\ fnRet[i].central_total_kWh >= 0
            /\ fnRet[i].local_total_kWh >= 0

\* a month of negative total load that costs energy without any fan power
C16_Witness ==
    /\ fnCall.fn = "simulate_year"
    /\ Len(fnRet) = 1
    /\ fnCall.equipment_spec.central_ahu_fan_power = 0
    /\ fnRet[1].total_load_kW < 0
    /\ fnRet[1].central_total_kWh > 0
    /\ fnRet[1].local_total_kWh > 0

\* C17 (as stated): for every month of a physically valid input the load
\* totals sensible_load_kW, latent_load_kW and total_load_kW are not
\* negative.
C17_LoadTotalsNotNegative ==
    fnCall.fn = "simulate_year" =>
        \A i \in 1..Len(fnRet) :
            /\ fnRet[i].sensible_load_kW >= 0
            /\ fnRet[i].latent_load_kW >= 0
            /\ fnRet[i].total_load_kW >= 0

SweepGrid == GridValues(fnCall.param_range)

SweepStep == SweepGrid[2] - SweepGrid[1]

TruthOnGrid == \E i \in 1..Len(SweepGrid) : SweepGrid[i] = fnCall.truth

\* the parameter value of result k
ValueOf(k) == fnRet.results[k].parameters[1].value

C20_IdenticalSequences ==
    (/\ fnCall.fn = "calculate_metrics"
     /\ fnCall.simulated = fnCall.actual
     /\ Len(fnCall.actual) >= 1
     /\ \A i \in 1..Len(fnCall.actual) : fnCall.actual[i] /= NaN)
    => /\ fnRet.exc = ""
       /\ fnRet.metrics[1].rmse = 0
       /\ fnRet.metrics[1].mae = 0
       /\ fnRet.metrics[1].mape = 0
       /\ fnRet.metrics[1].max_error = 0
       /\ (\E i, j \in 1..Len(fnCall.actual) :
                fnCall.actual[i] /= fnCall.actual[j])
          => fnRet.metrics[1].r_squared = 100

\* two identical sequences of two different values, one of them 0
C20_Witness ==
    /\ fnCall.fn = "calculate_metrics"
    /\ fnCall.simulated = << 0, 250 >>
    /\ fnCall.actual = << 0, 250 >>
    /\ fnRet.exc = ""
    /\ fnRet.metrics[1].r_squared = 100

\* C22: the outdoor-air term that calculate_latent_load returns is never
\* negative, its total is the person term plus the outdoor-air term, and so
\* the total is at least the occupant term 40 W per person, also when the
\* outdoor air is drier than the indoor air.
C22_OutdoorAirLatentFloored ==
    fnCall.fn = "calculate_latent_load" =>
        /\ fnRet.outdoor_air >= 0
        /\ fnRet.total = fnRet.person + fnRet.outdoor_air
        /\ fnRet.total >= PERSON_LATENT_HEAT * fnCall.condition.occupancy

\* six occupants and outdoor air drier than the indoor air: the outdoor-air
\* term is zero and the total is the occupant term alone
C22_Witness ==
    /\ fnCall.fn = "calculate_latent_load"
    /\ fnCall.condition.occupancy = 6
    /\ absolute_humidity(fnCall.condition.outdoor_temp,
                         fnCall.condition.outdoor_humidity)
         < absolute_humidity(fnCall.condition.indoor_temp_setpoint,
                             fnCall.condition.indoor_humidity_setpoint)
    /\ fnRet.outdoor_air = 0
    /\ fnRet.total = 240

\* C23: central and local system energy apply one formula whatever the
\* sign of the load: the thermal energy is |sensible + latent| times the
\* operation hours over the COP, so a load and the load of opposite sign
\* cost the same chiller and compressor energy, and the total is the fan
\* power times the operation hours plus the thermal energy.
C23_SameFormulaBothSigns ==
    fnCall.fn = "calculate_system_energy" =>
        LET load == Abs(fnCall.sensible_load + fnCall.latent_load)
            hours == fnCall.condition.operation_hours
            equipment == fnCall.equipment_spec
        IN  /\ fnRet.central.chiller
                    = ThermalEnergy(load, hours, equipment.central_chiller_cop)
            /\ fnRet.local.compressor
                    = ThermalEnergy(load, hours, equipment.local_ac_cop)
            /\ fnRet.central_opposite.chiller = fnRet.central.chiller
            /\ fnRet.local_opposite.compressor = fnRet.local.compressor
            /\ fnRet.central.total
                    = equipment.central_ahu_fan_power * hours
                        + fnRet.central.chiller
            /\ fnRet.local.total
                    = equipment.local_ac_fan_power * hours
                        + fnRet.local.compressor

\* a heating load that costs as much compressor energy as the cooling load
\* of the same size, with a fan running
C23_Witness ==
    /\ fnCall.fn = "calculate_system_energy"
    /\ fnCall.sensible_load + fnCall.latent_load < 0
    /\ fnCall.equipment_spec.local_ac_fan_power > 0
    /\ fnRet.local.compressor > 0
    /\ fnRet.local_opposite.compressor = fnRet.local.compressor
    /\ fnRet.local.total > fnRet.local.compressor

\* C24 (as stated): every parameter value that grid_search_calibration
\* evaluates for a ParameterRange lies within [min_value, max_value] of the
\* range, with an explicit step, also one that does not divide
\* max_value - min_value, and with num_steps.
C24_GridValuesWithinRange ==
    fnCall.fn = "grid_search_on_range" =>
        \A k \in 1..Len(fnRet.results) :
            /\ fnRet.results[k].parameters[1].value
                    >= fnCall.param_range.min_value
            /\ fnRet.results[k].parameters[1].value
                    <= fnCall.param_range.max_value

\* the positions of the actual-data entries that have a value for the
\* comparison target, in order
EntriesWithValue(actual_data, comparison_target) ==
    SelectSeq([ i \in 1..Len(actual_data) |-> i ],
              LAMBDA i : actual_data[i][comparison_target] /= None)

\* C25 (as stated): extract_comparison_values returns two lists of equal
\* length with one pair per actual-data entry that has a value for the
\* comparison target, in actual-data order: the actual value of the entry
\* and the simulated value of a result row whose month field equals the
\* month of the entry, for any ordering and number of MonthlyConditions.
C25_PairedWithSameMonth ==
    (fnCall.fn = "extract_comparison_values" /\ fnRet.exc = "") =>
        LET entries == EntriesWithValue(fnCall.actual_data,
                                        fnCall.comparison_target)
        IN  /\ Len(fnRet.simulated) = Len(entries)
            /\ Len(fnRet.actual) = Len(entries)
            /\ \A k \in 1..Len(entries) :
                  LET data == fnCall.actual_data[entries[k]]
                  IN  /\ fnRet.actual[k] = data[fnCall.comparison_target][1]
                      /\ \E r \in 1..Len(fnCall.results_df) :
                            /\ fnCall.results_df[r].month = data.month
                            /\ fnRet.simulated[k]
                                  = SimValue(fnCall.results_df[r],
                                             fnCall.comparison_target)

\* C26 (as stated): an actual-data entry with a value whose month is
\* outside 1..(number of simulated rows), month 0 and negative months
\* included, makes extract_comparison_values raise; it is never paired with
\* a simulated row.
C26_MonthOutOfRangeRaises ==
    fnCall.fn = "extract_comparison_values" =>
        LET entries == EntriesWithValue(fnCall.actual_data,
                                        fnCall.comparison_target)
        IN  (\E k \in 1..Len(entries) :
                fnCall.actual_data[entries[k]].month
                    \notin 1..Len(fnCall.results_df))
            => /\ fnRet.exc /= ""
               /\ fnRet.simulated = << >>

\* C27: every load total is the sum of its breakdown: the total of
\* calculate_sensible_load is wall + window + solar + lighting +
\* oa_equipment + person, the total of calculate_latent_load is person +
\* outdoor_air, and in every row of simulate_year total_load_kW is
\* sensible_load_kW + latent_load_kW and central_total_kWh is
\* central_ahu_fan_kWh + central_chiller_kWh.
C27_TotalsAreSums ==
    /\ fnCall.fn = "calculate_sensible_load" =>
            fnRet.total = fnRet.wall + fnRet.window + fnRet.solar
                            + fnRet.lighting + fnRet.oa_equipment
                            + fnRet.person
    /\ fnCall.fn = "calculate_latent_load" =>
            fnRet.total = fnRet.person + fnRet.outdoor_air
    /\ fnCall.fn = "simulate_year" =>
            \A i \in 1..Len(fnRet) :
                /\ fnRet[i].total_load_kW
                        = fnRet[i].sensible_load_kW + fnRet[i].latent_load_kW
                /\ fnRet[i].central_total_kWh
                        = fnRet[i].central_ahu_fan_kWh
                            + fnRet[i].central_chiller_kWh

\* a sensible load with heat lost through wall and window and heat gained
\* from sun, lighting, equipment and occupants
C27_Witness ==
    /\ fnCall.fn = "calculate_sensible_load"
    /\ fnRet.wall < 0
    /\ fnRet.window < 0
    /\ fnRet.solar > 0
    /\ fnRet.lighting > 0
    /\ fnRet.oa_equipment > 0
    /\ fnRet.person > 0

\* C28: in every row of simulate_year shf is sensible_load_kW over
\* sensible_load_kW + latent_load_kW when that sum is not zero and 0 when
\* it is zero, so that no row divides by a zero load.
C28_ShfDefinedAtZeroLoad ==
    fnCall.fn = "simulate_year" =>
        \A i \in 1..Len(fnRet) :
            LET denominator == fnRet[i].sensible_load_kW
                                + fnRet[i].latent_load_kW
            IN  IF denominator /= 0
                THEN fnRet[i].shf
                        = (fnRet[i].sensible_load_kW * 1000) \div denominator
                ELSE fnRet[i].shf = 0

\* an empty floor without windows at the outdoor temperature: no load at
\* all, and a fraction of 0
C28_Witness ==
    /\ fnCall.fn = "simulate_year"
    /\ Len(fnRet) = 1
    /\ fnRet[1].sensible_load_kW = 0
    /\ fnRet[1].latent_load_kW = 0
    /\ fnRet[1].shf = 0

\* the pairs of a calculate_metrics call that are free of nan, in order
ValidPairs ==
    LET mask == Mask(fnCall.simulated, fnCall.actual)
    IN  [ k \in 1..Len(mask) |-> [ sim |-> fnCall.simulated[mask[k]],
                                   act |-> fnCall.actual[mask[k]] ] ]

\* C29: calculate_metrics returns whenever a valid pair exists, and applies
\* its two zero defaults and no other: MAPE is the mean of
\* |error / actual| * 100 over exactly the pairs with actual /= 0 and is 0
\* when there is no such pair; R squared is 1 - SS_res / SS_tot and is 0
\* when SS_tot = 0, a single valid pair included.
C29_ZeroDefaultsOnly ==
    (fnCall.fn = "calculate_metrics" /\ Len(ValidPairs) >= 1) =>
        LET pairs == ValidPairs
            n == Len(pairs)
            nonzero == SelectSeq(pairs, LAMBDA p : p.act /= 0)
            actual_sum == SumSeq([ k \in 1..n |-> pairs[k].act ])
            ss_res == SumSeq([ k \in 1..n |->
                        (pairs[k].sim - pairs[k].act)
                            * (pairs[k].sim - pairs[k].act) ])
            \* n * n * SS_tot, every deviation from the mean taken n-fold
            nn_ss_tot == SumSeq([ k \in 1..n |->
                        (n * pairs[k].act - actual_sum)
                            * (n * pairs[k].act - actual_sum) ])
        IN  /\ fnRet.exc = ""
            /\ fnRet.metrics[1].mape
                  = IF nonzero = << >> THEN 0
                    ELSE SumSeq([ k \in 1..Len(nonzero) |->
                            (Abs(nonzero[k].sim - nonzero[k].act) * 100)
                                \div Abs(nonzero[k].act) ])
                         \div Len(nonzero)
            /\ fnRet.metrics[1].r_squared
                  = IF nn_ss_tot = 0 THEN 0
                    ELSE 100 - (ss_res * n * n * 100) \div nn_ss_tot
            /\ n = 1 => fnRet.metrics[1].r_squared = 0

\* a constant actual series of zeros against a simulation that misses it:
\* both defaults apply
C29_Witness ==
    /\ fnCall.fn = "calculate_metrics"
    /\ fnCall.actual = << 0, 0 >>
    /\ fnCall.simulated = << 100, 250 >>
    /\ fnRet.exc = ""
    /\ fnRet.metrics[1].mape = 0
    /\ fnRet.metrics[1].r_squared = 0
    /\ fnRet.metrics[1].rmse > 0

\* the metrics of one parameter assignment evaluated alone on the specs
\* the caller handed in
EvaluatedAlone(parameters) ==
    EvaluateTrial(HeapOf(ModernFloor, ModernEquipment, heap.conds["caller"]),
                  parameters, args.actual_data,
                  args.comparison_target).metrics

\* C30: once grid_search_calibration or optimize_calibration has ended, the
\* metrics it recorded for a parameter assignment, in the results of the
\* grid search and in the history of the optimizer, are the metrics of that assignment evaluated
\* alone on the caller's original specs, whatever trials and requests were
\* evaluated before it and in whatever order.
C30_TrialsIndependent ==
    pc = "done" =>
        /\ Dispatch(args.method) = "grid_search_calibration" =>
              \A recorded \in { results[k] : k \in 1..Len(results) } :
                << recorded.metrics >> = EvaluatedAlone(recorded.parameters)
        /\ Dispatch(args.method) = "optimize_calibration" =>
              \A recorded \in { history[k] : k \in 1..Len(history) } :
                << recorded.metrics >> = EvaluatedAlone(recorded.parameters)

\* a grid search over two ranges that recorded different metrics for two
\* assignments, evaluated out of product order
C30_Witness ==
    /\ pc = "done"
    /\ Dispatch(args.method) = "grid_search_calibration"
    /\ Len(args.parameter_ranges) = 2
    /\ Len(results) >= 2
    /\ results[1].parameters /= results[2].parameters
    /\ results[1].metrics /= results[2].metrics
    /\ positions[1] > positions[2]

====
